---- MODULE Spec2Model ----
(***************************************************************************)
(* RustDB (src/rustDB/src/lib.rs): a file-backed document store.  The      *)
(* in-memory state is a map collection name -> (document id -> Document);  *)
(* every mutating call rewrites the whole map, pretty-printed as JSON, to  *)
(* the file at file_path; RustDb::new reads it back.                       *)
(*                                                                         *)
(* File contents are sequences of JSON lexemes (one string per lexeme,     *)
(* whitespace between lexemes is the lexeme WS).  HashMap iteration order  *)
(* is unspecified, so every serialization and every listing chooses one.   *)
(***************************************************************************)
EXTENDS Integers, Sequences, FiniteSets, TLC

\* ------------------------------------------------------------------ bounds
\* At most MaxDocs documents are held by the store (guard of Insert).
MaxDocs == 2
\* A write that stops short has written at most MaxCut lines of its text.
MaxCut == 1
\* At most MaxFaults saves fail or are cut short by the death of the process.
MaxFaults == 1

\* ------------------------------------------------------- inputs of the model
Colls == {"users", "posts"}
Ids == {"u1", "u2"}
\* Documents are JSON values; the model uses two JSON numbers.
Docs == {30, 31}
\* Any string is accepted as a name or an id, the empty string included.
NamedColls == {"", "users"}
NamedIds == {"", "u1"}
Keys == Colls \cup Ids \cup NamedColls \cup NamedIds

\* -------------------------------------------------------------- JSON lexemes
WS == "\n"
Quote(k) == "\"" \o k \o "\""
DocText(d) == IF d = 30 THEN "30" ELSE "31"
IsStringLexeme(t) == \E k \in Keys : t = Quote(k)
Unquote(t) == CHOOSE k \in Keys : t = Quote(k)
IsNumberLexeme(t) == \E d \in Docs : t = DocText(d)
NumberOf(t) == CHOOSE d \in Docs : t = DocText(d)

\* ------------------------------------------------------------ HashMap values
EmptyMap == [k \in {} |-> 0]
Put(m, k, v) == [x \in (DOMAIN m) \cup {k} |-> IF x = k THEN v ELSE m[x]]
Remove(m, k) == [x \in (DOMAIN m) \ {k} |-> m[x]]
\* An iteration order of a HashMap's keys.
Perms(S) == {p \in [1..Cardinality(S) -> S] : \A i, j \in 1..Cardinality(S) : p[i] = p[j] => i = j}

RECURSIVE SumOver(_, _)
SumOver(cs, S) ==
  IF S = {} THEN 0
  ELSE LET c == CHOOSE x \in S : TRUE
       IN Cardinality(DOMAIN cs[c]) + SumOver(cs, S \ {c})
TotalDocs(cs) == SumOver(cs, DOMAIN cs)

\* Option<&Document>: <<>> is None, <<d>> is Some(d).
None == <<>>
Some(d) == <<d>>

\* ------------------------------------------- serde_json::to_string_pretty
\* PrettyFormatter: "{}" for an empty map; otherwise "{", then for each entry
\* (",")? newline+indent, key, ": ", value, and newline+indent before "}".
RECURSIVE SerDocsFrom(_, _, _)
SerDocsFrom(m, ord, i) ==
  IF i > Len(ord) THEN <<>>
  ELSE (IF i = 1 THEN <<WS>> ELSE <<",", WS>>)
       \o <<Quote(ord[i]), ":", DocText(m[ord[i]])>>
       \o SerDocsFrom(m, ord, i + 1)
SerDocs(m, ord) ==
  IF Len(ord) = 0 THEN <<"{", "}">>
  ELSE <<"{">> \o SerDocsFrom(m, ord, 1) \o <<WS, "}">>

RECURSIVE SerCollsFrom(_, _, _, _)
SerCollsFrom(cs, outer, inner, i) ==
  IF i > Len(outer) THEN <<>>
  ELSE (IF i = 1 THEN <<WS>> ELSE <<",", WS>>)
       \o <<Quote(outer[i]), ":">> \o SerDocs(cs[outer[i]], inner[outer[i]])
       \o SerCollsFrom(cs, outer, inner, i + 1)
\* Mutant: collections without documents are left out of the text.
to_string_pretty_skip_empty(cs, outer, inner) ==
  LET kept == SelectSeq(outer, LAMBDA c : DOMAIN cs[c] # {})
  IN IF Len(kept) = 0 THEN <<"{", "}">>
     ELSE <<"{">> \o SerCollsFrom(cs, kept, inner, 1) \o <<WS, "}">>
to_string_pretty(cs, outer, inner) ==
  IF Len(outer) = 0 THEN <<"{", "}">>
  ELSE <<"{">> \o SerCollsFrom(cs, outer, inner, 1) \o <<WS, "}">>

\* The iteration orders the maps of cs can have.
InnerOrders(cs) ==
  {f \in [DOMAIN cs -> UNION {Perms(DOMAIN cs[c]) : c \in DOMAIN cs}] :
     \A c \in DOMAIN cs : f[c] \in Perms(DOMAIN cs[c])}
Serializations(cs) ==
  {to_string_pretty(cs, outer, inner) : outer \in Perms(DOMAIN cs), inner \in InnerOrders(cs)}

\* ------------------------------------------------- serde_json::from_str
\* The parser skips whitespace between lexemes.
SkipWs(content) == SelectSeq(content, LAMBDA t : t # WS)
Ok(p, v) == [st |-> "ok", pos |-> p, val |-> v]
Eof == [st |-> "eof", pos |-> 0, val |-> EmptyMap]
Syntax == [st |-> "syntax", pos |-> 0, val |-> EmptyMap]

\* A Document (serde_json::Value) at toks[pos].
ParseDoc(toks, pos) ==
  IF pos > Len(toks) THEN Eof
  ELSE IF IsNumberLexeme(toks[pos]) THEN Ok(pos + 1, NumberOf(toks[pos]))
  ELSE Syntax

RECURSIVE ParseMembers(_, _, _, _, _)
RECURSIVE ParseObj(_, _, _)
\* A map at toks[pos]: depth 1 is the map of collections (values are maps of
\* documents), depth 2 a map of documents.
ParseObj(toks, pos, depth) ==
  IF pos > Len(toks) THEN Eof
  ELSE IF toks[pos] # "{" THEN Syntax
  ELSE ParseMembers(toks, pos + 1, depth, EmptyMap, TRUE)
\* The entries after "{" (first) or after "," (not first); a repeated key
\* overwrites the earlier entry, as HashMap::insert does.
ParseMembers(toks, pos, depth, acc, first) ==
  IF pos > Len(toks) THEN Eof
  ELSE IF toks[pos] = "}" THEN (IF first THEN Ok(pos + 1, acc) ELSE Syntax)
  ELSE IF ~IsStringLexeme(toks[pos]) THEN Syntax
  ELSE IF pos + 1 > Len(toks) THEN Eof
  ELSE IF toks[pos + 1] # ":" THEN Syntax
  ELSE LET v == IF depth = 1 THEN ParseObj(toks, pos + 2, 2) ELSE ParseDoc(toks, pos + 2)
       IN IF v.st # "ok" THEN v
          ELSE LET acc2 == Put(acc, Unquote(toks[pos]), v.val)
               IN IF v.pos > Len(toks) THEN Eof
                  ELSE IF toks[v.pos] = "," THEN ParseMembers(toks, v.pos + 1, depth, acc2, FALSE)
                  ELSE IF toks[v.pos] = "}" THEN Ok(v.pos + 1, acc2)
                  ELSE Syntax

\* from_str::<HashMap<String, HashMap<String, Document>>>: the value, then
\* nothing but whitespace.
from_str(content) ==
  LET toks == SkipWs(content)
      r == ParseObj(toks, 1, 1)
  IN IF r.st # "ok" THEN r
     ELSE IF r.pos <= Len(toks) THEN Syntax
     ELSE r

\* impl From<serde_json::Error> for RustDbError.
from_serde_error(st) ==
  IF st = "eof" THEN "DeserializationError" ELSE "SerializationError"

\* ------------------------------------------------------------------- state
VARIABLES
  alive,        \* a RustDb instance exists (the process is running)
  collections,  \* RustDb.collections of that instance
  disk,         \* the file at file_path: [exists, content]
  wal,          \* the write-ahead log file next to the snapshot
  last,         \* the last call: arguments, result, the memory it started from
  acked,        \* collections as of the last mutating call that returned Ok
  crash,        \* how the process last died, kept until the call after the next open
  faults        \* number of saves that failed or were interrupted so far
vars == <<alive, collections, disk, wal, last, acked, crash, faults>>

File(content) == [exists |-> TRUE, content |-> content]
NoFile == [exists |-> FALSE, content |-> <<>>]

\* Files a store can find at file_path when it starts: none, a zero-length
\* one, whitespace, a snapshot cut short, bytes that are no snapshot, and
\* snapshots written by an earlier run.
InitialFiles ==
  {NoFile, File(<<>>), File(<<WS>>), File(<<"{", WS, Quote("users"), ":">>),
   File(<<"}">>), File(<<"30">>)}
  \cup {File(s) : s \in Serializations([users |-> [u1 |-> 30]])}
  \cup {File(s) : s \in Serializations([posts |-> EmptyMap])}

\* Write-ahead log contents a store can find next to the snapshot.
WalRecord(op, c, id, d) == [op |-> op, c |-> c, id |-> id, d |-> d]
PendingWal ==
  <<WalRecord("insert", "users", "u1", 30), WalRecord("delete", "users", "u1", 30),
    WalRecord("insert", "users", "u1", 31)>>
InitialWals == {<<>>, PendingWal}
\* The snapshots next to which the pending log is found: none, and one of an
\* earlier run.
PendingWalFiles == {NoFile} \cup {File(s) : s \in Serializations([users |-> [u1 |-> 30]])}

NoCall ==
  [op |-> "none", c |-> "", id |-> "", d |-> 0, res |-> "", got |-> None,
   listed |-> <<>>, readErr |-> FALSE, pre |-> EmptyMap]
NoCrash == [kind |-> "none", before |-> EmptyMap, saving |-> EmptyMap]

Init ==
  /\ alive = FALSE
  /\ collections = EmptyMap
  /\ disk \in InitialFiles
  /\ wal \in InitialWals
  /\ wal # <<>> => disk \in PendingWalFiles
  /\ last = NoCall
  /\ acked = [known |-> FALSE, state |-> EmptyMap]
  /\ crash = NoCrash
  /\ faults = 0

\* Mutants of load: a snapshot that does not decode gives an empty store;
\* the content goes to from_str without the test for an all-whitespace file.
load_lenient(cs, dk, readErr) ==
  IF ~dk.exists THEN [res |-> "IoError", kind |-> "NotFound", cs |-> cs]
  ELSE IF readErr THEN [res |-> "IoError", kind |-> "Other", cs |-> cs]
  ELSE LET r == from_str(dk.content)
       IN [res |-> "Ok", kind |-> "", cs |-> IF r.st = "ok" THEN r.val ELSE EmptyMap]
load_no_blank_test(cs, dk, readErr) ==
  IF ~dk.exists THEN [res |-> "IoError", kind |-> "NotFound", cs |-> cs]
  ELSE IF readErr THEN [res |-> "IoError", kind |-> "Other", cs |-> cs]
  ELSE LET r == from_str(dk.content)
       IN IF r.st = "ok" THEN [res |-> "Ok", kind |-> "", cs |-> r.val]
          ELSE [res |-> from_serde_error(r.st), kind |-> r.st, cs |-> cs]

\* ------------------------------------------------------------ RustDb::load
\* fs::read_to_string, then an all-whitespace content is an empty store and
\* anything else goes through from_str; the error of from_str is converted
\* by `?`.  cs is self.collections, kept when load fails.
load(cs, dk, readErr) ==
  IF ~dk.exists THEN [res |-> "IoError", kind |-> "NotFound", cs |-> cs]
  ELSE IF readErr THEN [res |-> "IoError", kind |-> "Other", cs |-> cs]
  ELSE IF SkipWs(dk.content) = <<>> THEN [res |-> "Ok", kind |-> "", cs |-> EmptyMap]
  ELSE LET r == from_str(dk.content)
       IN IF r.st = "ok" THEN [res |-> "Ok", kind |-> "", cs |-> r.val]
          ELSE [res |-> from_serde_error(r.st), kind |-> r.st, cs |-> cs]

\* Mutant of new: a missing file is an error like any other.
new_notfound_fatal(dk, readErr) ==
  LET r == load(EmptyMap, dk, readErr)
  IN IF r.res = "Ok" THEN [res |-> "Ok", made |-> TRUE, cs |-> r.cs]
     ELSE [res |-> r.res, made |-> FALSE, cs |-> EmptyMap]

\* ------------------------------------------------------------- RustDb::new
\* Ok(db) when load succeeds or the file is not found, Err(e) otherwise.
new(dk, readErr) ==
  LET r == load(EmptyMap, dk, readErr)
  IN IF r.res = "Ok" THEN [res |-> "Ok", made |-> TRUE, cs |-> r.cs]
     ELSE IF r.res = "IoError" /\ r.kind = "NotFound" THEN [res |-> "Ok", made |-> TRUE, cs |-> r.cs]
     ELSE [res |-> r.res, made |-> FALSE, cs |-> EmptyMap]

\* ------------------------------------------------------------ RustDb::save
\* The number of line ends among the first k lexemes of text s.
LineEnds(s, k) == Cardinality({j \in 1..k : s[j] = WS})
\* The lengths at which a write of text s can stop short: nothing written,
\* or the text up to the end of one of its first MaxCut lines.
CutPoints(s) ==
  {0} \cup {k \in 1..(Len(s) - 1) : s[k + 1] = WS /\ LineEnds(s, k) < MaxCut}
\* What a write of a text of store cs that stops short leaves in the file.
CutTexts(cs) == UNION {{SubSeq(s, 1, k) : k \in CutPoints(s)} : s \in Serializations(cs)}

\* Mutant of save: the text is made from the memory as it was before the
\* call changed it.
save_before_mutation(cs, dk, mayFail) ==
  {[disk |-> File(s), res |-> "Ok"] : s \in Serializations(collections)}
  \cup (IF ~mayFail THEN {}
        ELSE {[disk |-> dk, res |-> "IoError"]}
             \cup {[disk |-> File(t), res |-> "IoError"] : t \in CutTexts(collections)})

\* to_string_pretty cannot fail on string-keyed maps of Values.  fs::write
\* is File::create (which truncates) followed by write_all: it fails before
\* the file is touched, or after part of the text has been written.
\* mayFail says whether the file system may fail this write.
save(cs, dk, mayFail) ==
  {[disk |-> File(s), res |-> "Ok"] : s \in Serializations(cs)}
  \cup (IF ~mayFail THEN {}
        ELSE {[disk |-> dk, res |-> "IoError"]}
             \cup {[disk |-> File(t), res |-> "IoError"] : t \in CutTexts(cs)})

\* The process dying inside save: before the file is opened, or after part
\* or all of the text has been written.
save_interrupted(cs, dk) ==
  {[disk |-> dk, res |-> "crashed"]}
  \cup {[disk |-> File(t), res |-> "crashed"] : t \in CutTexts(cs) \cup Serializations(cs)}

\* ------------------------------------------------- the in-memory operations
\* Mutant of insert_mem: entry(id).or_insert(document), which keeps a document
\* that is already there.
insert_mem_keep_existing(cs, c, id, d) ==
  IF c \in DOMAIN cs /\ id \in DOMAIN cs[c] THEN cs
  ELSE Put(cs, c, Put(IF c \in DOMAIN cs THEN cs[c] ELSE EmptyMap, id, d))
\* Mutants of remove_mem: nothing is removed; the whole collection is removed.
remove_mem_noop(cs, c, id) == cs
remove_mem_drops_collection(cs, c, id) == Remove(cs, c)
\* Mutant of remove_mem: collection.clear(), which removes every document.
remove_mem_empties_collection(cs, c, id) == Put(cs, c, EmptyMap)
\* Mutant of insert_mem: the collection is replaced by one holding only the
\* new document.
insert_mem_fresh_collection(cs, c, id, d) == Put(cs, c, Put(EmptyMap, id, d))
\* entry(collection_name).or_default().insert(document_id, document)
insert_mem(cs, c, id, d) ==
  Put(cs, c, Put(IF c \in DOMAIN cs THEN cs[c] ELSE EmptyMap, id, d))
\* collections.get(collection_name).and_then(|c| c.get(document_id))
get_document(cs, c, id) ==
  IF c \in DOMAIN cs /\ id \in DOMAIN cs[c] THEN Some(cs[c][id]) ELSE None
\* collection.remove(document_id) on the collection found by get_mut
remove_mem(cs, c, id) == Put(cs, c, Remove(cs[c], id))
\* Mutants of clear_mem: entry(name).or_default().clear(), which creates the
\* collection; collections.remove(name), which drops it.
clear_mem_creates(cs, c) == Put(cs, c, EmptyMap)
clear_mem_removes_collection(cs, c) == Remove(cs, c)
\* if let Some(collection) = get_mut(collection_name) { collection.clear() }
clear_mem(cs, c) == IF c \in DOMAIN cs THEN Put(cs, c, EmptyMap) ELSE cs
\* Mutant of list_collection_documents: the first entry of the iteration is
\* left out.
list_skips_first(cs, c, ord) ==
  IF c \in DOMAIN cs THEN [i \in 1..(Len(ord) - 1) |-> <<ord[i + 1], cs[c][ord[i + 1]]>>] ELSE <<>>
\* The Vec of (id, document) pairs in the iteration order ord, empty for an
\* absent collection.
list_collection_documents(cs, c, ord) ==
  IF c \in DOMAIN cs THEN [i \in 1..Len(ord) |-> <<ord[i], cs[c][ord[i]]>>] ELSE <<>>
ListOrders(cs, c) == IF c \in DOMAIN cs THEN Perms(DOMAIN cs[c]) ELSE {<<>>}

\* ------------------------------------------------------------------ actions
Call(op, c, id, d, res, got, listed, readErr) ==
  [op |-> op, c |-> c, id |-> id, d |-> d, res |-> res, got |-> got,
   listed |-> listed, readErr |-> readErr, pre |-> collections]

\* Mutant of Persist: the memory is put back as it was when save fails.
Persist_rolls_back(op, c, id, d, cs2) ==
  \E o \in save(cs2, disk, faults < MaxFaults)
           \cup (IF faults < MaxFaults THEN save_interrupted(cs2, disk) ELSE {}) :
    /\ faults' = IF o.res = "Ok" THEN faults ELSE faults + 1
    /\ disk' = o.disk
    /\ last' = Call(op, c, id, d, o.res, None, <<>>, FALSE)
    /\ IF o.res = "crashed"
       THEN /\ alive' = FALSE
            /\ collections' = EmptyMap
            /\ crash' = [kind |-> "midsave", before |-> collections, saving |-> cs2]
            /\ acked' = acked
       ELSE /\ alive' = alive
            /\ collections' = IF o.res = "Ok" THEN cs2 ELSE collections
            /\ crash' = NoCrash
            /\ acked' = IF o.res = "Ok" THEN [known |-> TRUE, state |-> cs2] ELSE acked

\* Mutant of Persist: a call that left the memory as it was returns Ok
\* without calling save.
Persist_skips_unchanged(op, c, id, d, cs2) ==
  \E o \in (IF cs2 = collections THEN {[disk |-> disk, res |-> "Ok"]}
            ELSE save(cs2, disk, faults < MaxFaults)
                 \cup (IF faults < MaxFaults THEN save_interrupted(cs2, disk) ELSE {})) :
    /\ faults' = IF o.res = "Ok" THEN faults ELSE faults + 1
    /\ disk' = o.disk
    /\ last' = Call(op, c, id, d, o.res, None, <<>>, FALSE)
    /\ IF o.res = "crashed"
       THEN /\ alive' = FALSE
            /\ collections' = EmptyMap
            /\ crash' = [kind |-> "midsave", before |-> collections, saving |-> cs2]
            /\ acked' = acked
       ELSE /\ alive' = alive
            /\ collections' = cs2
            /\ crash' = NoCrash
            /\ acked' = IF o.res = "Ok" THEN [known |-> TRUE, state |-> cs2] ELSE acked

\* The end of a mutating call that has changed memory to cs2 and calls save.
Persist(op, c, id, d, cs2) ==
  \E o \in save(cs2, disk, faults < MaxFaults)
           \cup (IF faults < MaxFaults THEN save_interrupted(cs2, disk) ELSE {}) :
    /\ faults' = IF o.res = "Ok" THEN faults ELSE faults + 1
    /\ disk' = o.disk
    /\ last' = Call(op, c, id, d, o.res, None, <<>>, FALSE)
    /\ IF o.res = "crashed"
       THEN /\ alive' = FALSE
            /\ collections' = EmptyMap
            /\ crash' = [kind |-> "midsave", before |-> collections, saving |-> cs2]
            /\ acked' = acked
       ELSE /\ alive' = alive
            /\ collections' = cs2
            /\ crash' = NoCrash
            /\ acked' = IF o.res = "Ok" THEN [known |-> TRUE, state |-> cs2] ELSE acked

Open ==
  /\ ~alive
  /\ \E readErr \in BOOLEAN :
       LET r == new(disk, readErr)
       IN /\ alive' = r.made
          /\ collections' = r.cs
          /\ last' = Call("open", "", "", 0, r.res, None, <<>>, readErr)
  /\ UNCHANGED <<disk, wal, acked, crash, faults>>

Insert ==
  /\ alive
  /\ \E c \in Colls, id \in Ids, d \in Docs :
       /\ TotalDocs(insert_mem(collections, c, id, d)) <= MaxDocs
       /\ Persist("insert", c, id, d, insert_mem(collections, c, id, d))
  /\ UNCHANGED wal

Delete ==
  /\ alive
  /\ \E c \in Colls, id \in Ids :
       IF get_document(collections, c, id) = None
       THEN /\ last' = Call("delete", c, id, 0, "KeyNotFound", None, <<>>, FALSE)
            /\ crash' = NoCrash
            /\ UNCHANGED <<alive, collections, disk, acked, faults>>
       ELSE Persist("delete", c, id, 0, remove_mem(collections, c, id))
  /\ UNCHANGED wal

Clear ==
  /\ alive
  /\ \E c \in Colls : Persist("clear", c, "", 0, clear_mem(collections, c))
  /\ UNCHANGED wal

Get ==
  /\ alive
  /\ \E c \in Colls, id \in Ids :
       last' = Call("get", c, id, 0, "Ok", get_document(collections, c, id), <<>>, FALSE)
  /\ crash' = NoCrash
  /\ UNCHANGED <<alive, collections, disk, wal, acked, faults>>

List ==
  /\ alive
  /\ \E c \in Colls : \E ord \in ListOrders(collections, c) :
       last' = Call("list", c, "", 0, "Ok", None,
                    list_collection_documents(collections, c, ord), FALSE)
  /\ crash' = NoCrash
  /\ UNCHANGED <<alive, collections, disk, wal, acked, faults>>

\* The process dies between two calls: the instance and its memory are gone,
\* the files stay.
Crash ==
  /\ alive
  /\ alive' = FALSE
  /\ collections' = EmptyMap
  /\ crash' = [kind |-> "between", before |-> collections, saving |-> collections]
  /\ last' = Call("crash", "", "", 0, "crashed", None, <<>>, FALSE)
  /\ UNCHANGED <<disk, wal, acked, faults>>

Next == Open \/ Insert \/ Delete \/ Clear \/ Get \/ List \/ Crash

Spec == Init /\ [][Next]_vars

\* ------------------------------------- the calls with empty-string names
\* The same methods called with names and ids drawn from NamedColls and
\* NamedIds, on a store opened at a path with no file.
InitNamed ==
  /\ alive = FALSE
  /\ collections = EmptyMap
  /\ disk = NoFile
  /\ wal = <<>>
  /\ last = NoCall
  /\ acked = [known |-> FALSE, state |-> EmptyMap]
  /\ crash = NoCrash
  /\ faults = 0

InsertNamed ==
  /\ alive
  /\ \E c \in NamedColls, id \in NamedIds, d \in Docs :
       /\ TotalDocs(insert_mem(collections, c, id, d)) <= MaxDocs
       /\ Persist("insert", c, id, d, insert_mem(collections, c, id, d))
  /\ UNCHANGED wal

DeleteNamed ==
  /\ alive
  /\ \E c \in NamedColls, id \in NamedIds :
       IF get_document(collections, c, id) = None
       THEN /\ last' = Call("delete", c, id, 0, "KeyNotFound", None, <<>>, FALSE)
            /\ crash' = NoCrash
            /\ UNCHANGED <<alive, collections, disk, acked, faults>>
       ELSE Persist("delete", c, id, 0, remove_mem(collections, c, id))
  /\ UNCHANGED wal

ClearNamed ==
  /\ alive
  /\ \E c \in NamedColls : Persist("clear", c, "", 0, clear_mem(collections, c))
  /\ UNCHANGED wal

GetNamed ==
  /\ alive
  /\ \E c \in NamedColls, id \in NamedIds :
       last' = Call("get", c, id, 0, "Ok", get_document(collections, c, id), <<>>, FALSE)
  /\ crash' = NoCrash
  /\ UNCHANGED <<alive, collections, disk, wal, acked, faults>>

ListNamed ==
  /\ alive
  /\ \E c \in NamedColls : \E ord \in ListOrders(collections, c) :
       last' = Call("list", c, "", 0, "Ok", None,
                    list_collection_documents(collections, c, ord), FALSE)
  /\ crash' = NoCrash
  /\ UNCHANGED <<alive, collections, disk, wal, acked, faults>>

NextNamed == Open \/ InsertNamed \/ DeleteNamed \/ ClearNamed \/ GetNamed \/ ListNamed

SpecNamed == InitNamed /\ [][NextNamed]_vars

\* =================================================================== claims
Mutating == {"insert", "delete", "clear"}
Present(cs, c, id) == c \in DOMAIN cs /\ id \in DOMAIN cs[c]

\* C1: after insert(c, id, d) get(c, id) returns d; after delete(c, id)
\* get(c, id) returns none; delete of an id that is not in c (never inserted,
\* or already deleted) returns KeyNotFound.
C1_InsertGetDelete ==
  /\ (last.op = "insert" /\ last.res # "crashed")
       => get_document(collections, last.c, last.id) = Some(last.d)
  /\ (last.op = "delete" /\ last.res # "crashed")
       => get_document(collections, last.c, last.id) = None
  /\ (last.op = "delete" /\ ~Present(last.pre, last.c, last.id))
       => last.res = "KeyNotFound"
\* A delete of a document that was there has returned Ok.
C1_Witness ==
  /\ last.op = "delete" /\ last.res = "Ok"
  /\ Present(last.pre, last.c, last.id)
  /\ get_document(collections, last.c, last.id) = None

\* C2: when the process dies between two calls and the store is opened
\* again (the read itself not failing), open succeeds with the memory as it
\* was when the last mutating call returned Ok.
C2_AckedSurvivesCrash ==
  (last.op = "open" /\ crash.kind = "between" /\ acked.known /\ ~last.readErr)
    => (last.res = "Ok" /\ collections = acked.state)

\* C3 as stated: every insert and every delete of a present id appends a
\* record to the write-ahead log.
C3_WalAppendFirst ==
  [][(last'.op \in {"insert", "delete"} /\ last'.res # "KeyNotFound")
       => (Len(wal') = Len(wal) + 1 /\ wal'[Len(wal')].op = last'.op)]_vars
\* C3 as amended: an insert or a delete of a present id that returns changes
\* the memory and then saves it (a save that succeeds has written the
\* memory as changed); the write-ahead log is not written.
C3_MutateThenSave ==
  [][(last'.op \in {"insert", "delete"} /\ last'.res \in {"Ok", "IoError"})
       => /\ wal' = wal
          /\ collections' = (IF last'.op = "insert"
                             THEN insert_mem(collections, last'.c, last'.id, last'.d)
                             ELSE remove_mem(collections, last'.c, last'.id))
          /\ (last'.res = "Ok"
                => /\ disk'.exists
                   /\ from_str(disk'.content).st = "ok"
                   /\ from_str(disk'.content).val = collections')]_vars
\* An insert that changed the memory has returned Ok next to a pending log.
C3_Witness ==
  /\ last.op = "insert" /\ last.res = "Ok"
  /\ last.pre # collections
  /\ wal = PendingWal

\* C4 as stated: a successful open leaves the write-ahead log empty, and
\* with the snapshot missing and the log holding insert u1 30, delete u1,
\* insert u1 31, get(u1) returns 31 after open.
C4_OpenReplaysWal ==
  [][(last'.op = "open" /\ last'.res = "Ok")
       => /\ wal' = <<>>
          /\ (~disk.exists /\ wal = PendingWal)
               => get_document(collections', "users", "u1") = Some(31)]_vars
\* C4 as amended: open reads the snapshot alone and writes no file; with the
\* snapshot missing it returns an empty store whatever the log holds, and a
\* snapshot with content that opens gives the store decoded from it.
C4_OpenLoadsSnapshotOnly ==
  [][(last'.op = "open")
       => /\ wal' = wal
          /\ disk' = disk
          /\ ~disk.exists => (last'.res = "Ok" /\ alive' /\ collections' = EmptyMap)
          /\ (last'.res = "Ok" /\ disk.exists /\ SkipWs(disk.content) # <<>>)
               => collections' = from_str(disk.content).val]_vars
\* The store has been opened with no snapshot and the three records in the log.
C4_Witness ==
  /\ last.op = "open" /\ last.res = "Ok"
  /\ ~disk.exists
  /\ wal = PendingWal
  /\ get_document(collections, "users", "u1") = None

\* C5: when the process dies inside save, a later open that succeeds gives
\* the memory of before the call or the memory that was being saved.
C5_NoTornSnapshot ==
  (last.op = "open" /\ crash.kind = "midsave" /\ last.res = "Ok")
    => collections \in {crash.before, crash.saving}

\* C6: delete(c, id) returns KeyNotFound exactly when c does not exist or id
\* is not in c, and then memory and snapshot are unchanged; otherwise the
\* document is removed from memory and the memory is saved (a save that
\* succeeds has written the memory without the document).
C6_DeleteKeyNotFound ==
  [][(last'.op = "delete")
       => LET c == last'.c
              id == last'.id
              absent == ~(c \in DOMAIN collections /\ id \in DOMAIN collections[c])
          IN /\ (last'.res = "KeyNotFound") <=> absent
             /\ absent => (collections' = collections /\ disk' = disk /\ alive')
             /\ (~absent /\ last'.res # "crashed")
                  => /\ last'.res \in {"Ok", "IoError"}
                     /\ collections' = [collections EXCEPT ![c] = Remove(@, id)]
                     /\ (last'.res = "Ok"
                           => /\ disk'.exists
                              /\ from_str(disk'.content).st = "ok"
                              /\ from_str(disk'.content).val = collections')]_vars
\* A delete on a collection that does not exist has returned KeyNotFound.
C6_Witness ==
  /\ last.op = "delete" /\ last.res = "KeyNotFound"
  /\ last.c \notin DOMAIN collections
  /\ collections # EmptyMap

\* C7: insert(c, id, d) creates c if absent and replaces the document of
\* (c, id) if there is one: afterwards every listing of c has exactly one
\* entry for id, that entry is d, and the listing is one longer than before
\* only if id was not in c.
C7_InsertUpserts ==
  (last.op = "insert" /\ last.res # "crashed")
    => /\ last.c \in DOMAIN collections
       /\ \A ord \in ListOrders(collections, last.c) :
            LET l == list_collection_documents(collections, last.c, ord)
                before == IF last.c \in DOMAIN last.pre THEN DOMAIN last.pre[last.c] ELSE {}
            IN /\ Cardinality({i \in 1..Len(l) : l[i][1] = last.id}) = 1
               /\ \A i \in 1..Len(l) : l[i][1] = last.id => l[i][2] = last.d
               /\ Len(l) = Cardinality(before \cup {last.id})
\* An insert has replaced a different document.
C7_Witness ==
  /\ last.op = "insert" /\ last.res # "crashed"
  /\ Present(last.pre, last.c, last.id)
  /\ last.pre[last.c][last.id] # last.d

\* C8 as stated: when the snapshot exists and the read fails, or its bytes
\* are not empty and not a valid encoding, open returns an error and no
\* instance.
C8_UnreadableIsError ==
  (last.op = "open" /\ disk.exists
     /\ (last.readErr \/ (disk.content # <<>> /\ from_str(disk.content).st # "ok")))
    => (last.res # "Ok" /\ ~alive)
\* C8 as amended: the same for bytes that hold more than whitespace.
C8_NonBlankUnreadableIsError ==
  (last.op = "open" /\ disk.exists
     /\ (last.readErr \/ (SkipWs(disk.content) # <<>> /\ from_str(disk.content).st # "ok")))
    => (last.res # "Ok" /\ ~alive)
\* An open has read bytes that are no snapshot.
C8_Witness ==
  /\ last.op = "open" /\ disk.exists /\ ~last.readErr
  /\ SkipWs(disk.content) # <<>>
  /\ from_str(disk.content).st = "syntax"
  /\ ~alive

\* C9: open with the snapshot missing, or of zero length and read without
\* error, returns Ok and a store with no collections.
C9_MissingOrEmptyOpensEmpty ==
  (last.op = "open" /\ (~disk.exists \/ (disk.content = <<>> /\ ~last.readErr)))
    => (last.res = "Ok" /\ alive /\ collections = EmptyMap)
\* A zero-length snapshot has been opened.
C9_Witness ==
  /\ last.op = "open" /\ disk.exists /\ disk.content = <<>>
  /\ alive

\* C10: every text save can write for the memory decodes to the memory, and
\* after a mutating call that returned Ok, load of the file gives the memory.
C10_RoundTrip ==
  /\ alive => \A s \in Serializations(collections) :
                 from_str(s).st = "ok" /\ from_str(s).val = collections
  /\ (last.op \in Mutating /\ last.res = "Ok")
       => load(EmptyMap, disk, FALSE) = [res |-> "Ok", kind |-> "", cs |-> collections]
\* A store with an empty collection and a document has been saved.
C10_Witness ==
  /\ last.op \in Mutating /\ last.res = "Ok"
  /\ \E c \in DOMAIN collections : DOMAIN collections[c] = {}
  /\ \E c \in DOMAIN collections : DOMAIN collections[c] # {}

\* Every (collection, id, document) entry of store b is an entry of store a.
Superset(a, b) ==
  \A c \in DOMAIN b : \A id \in DOMAIN b[c] : Present(a, c, id) /\ a[c][id] = b[c][id]

Holds(dk, cs) ==
  dk.exists /\ from_str(dk.content).st = "ok" /\ from_str(dk.content).val = cs

\* C12: clear(c) on an existing collection leaves c in the map with no
\* documents and every other collection as it was; clear(c) on a collection
\* that does not exist leaves the memory as it was and does not create c;
\* both save the memory (a save that succeeds has written it).
C12_ClearEmptiesKeepsCollection ==
  [][(last'.op = "clear" /\ last'.res \in {"Ok", "IoError"})
       => LET c == last'.c
          IN /\ c \in DOMAIN collections
                  => /\ DOMAIN collections' = DOMAIN collections
                     /\ DOMAIN collections'[c] = {}
                     /\ \A o \in DOMAIN collections \ {c} : collections'[o] = collections[o]
             /\ c \notin DOMAIN collections => collections' = collections
             /\ last'.res = "Ok" => Holds(disk', collections')]_vars
\* A clear of a collection that does not exist, in a store that holds
\* another collection with a document, has returned Ok and the file holds
\* the memory.
C12_Witness ==
  /\ last.op = "clear" /\ last.res = "Ok"
  /\ last.c \notin DOMAIN collections
  /\ last.pre = collections
  /\ \E o \in DOMAIN collections : DOMAIN collections[o] # {}
  /\ Holds(disk, collections)

\* The (id, document) pairs of collection c of store cs.
Entries(cs, c) ==
  IF c \in DOMAIN cs THEN {<<id, cs[c][id]>> : id \in DOMAIN cs[c]} ELSE {}

\* C13: get and list return without error and change neither the memory nor
\* the file; get returns the document of (c, id) or none; list(c) returns
\* exactly the pairs of c, each id once, and nothing for an absent c; on a
\* collection with no documents both return what they return for an absent
\* one.  Names and ids include the empty string.
C13_ReadsArePure ==
  [][(last'.op \in {"get", "list"})
       => LET c == last'.c
              l == last'.listed
          IN /\ last'.res = "Ok" /\ alive'
             /\ collections' = collections /\ disk' = disk
             /\ last'.op = "get"
                  => last'.got = (IF Present(collections, c, last'.id)
                                  THEN Some(collections[c][last'.id]) ELSE None)
             /\ last'.op = "list"
                  => /\ {l[i] : i \in 1..Len(l)} = Entries(collections, c)
                     /\ Len(l) = Cardinality(Entries(collections, c))
                     /\ \A i, j \in 1..Len(l) : l[i][1] = l[j][1] => i = j
             /\ (c \notin DOMAIN collections \/ DOMAIN collections[c] = {})
                  => (last'.got = None /\ l = <<>>)]_vars
\* The collection named by the empty string exists with no documents next
\* to a collection that holds one, and a list of it has returned nothing.
C13_Witness ==
  /\ last.op = "list" /\ last.c = ""
  /\ "" \in DOMAIN collections /\ DOMAIN collections[""] = {}
  /\ \E o \in DOMAIN collections : DOMAIN collections[o] # {}
  /\ last.listed = <<>>

\* C14: within an open store an insert(c, ..) adds c to the collections if
\* it is not there, and no other call changes which collections exist: no
\* delete, clear, get or list adds one, and none is dropped by deleting its
\* last document or by clearing it.
C14_CollectionsEnterByInsertOnly ==
  [][(alive /\ alive')
       => DOMAIN collections' = (IF last'.op = "insert"
                                 THEN DOMAIN collections \cup {last'.c}
                                 ELSE DOMAIN collections)]_vars
\* The last document of a collection has been deleted and the collection is
\* still there, empty.
C14_Witness ==
  /\ alive
  /\ last.op = "delete" /\ last.res \in {"Ok", "IoError"}
  /\ DOMAIN last.pre[last.c] = {last.id}
  /\ last.c \in DOMAIN collections /\ DOMAIN collections[last.c] = {}

\* C15: the bytes a save writes are determined by the content of the
\* collections: after a mutating call that returned Ok the file holds the
\* one text that any save of an equal map writes.
C15_EncodingDeterministic ==
  (last.op \in Mutating /\ last.res = "Ok")
    => \A s \in Serializations(collections) : disk.content = s

\* C16: a mutating call whose save failed has returned the error and left
\* its change in the memory: after a failed insert(c, id, d) get(c, id)
\* returns d; after a failed delete(c, id) the document is gone; after a
\* failed clear(c) the collection holds no documents.
C16_NoRollbackOnFailedSave ==
  (last.op \in Mutating /\ last.res = "IoError")
    => /\ alive
       /\ last.op = "insert"
            => /\ get_document(collections, last.c, last.id) = Some(last.d)
               /\ collections = insert_mem(last.pre, last.c, last.id, last.d)
       /\ last.op = "delete"
            => /\ Present(last.pre, last.c, last.id)
               /\ get_document(collections, last.c, last.id) = None
               /\ collections = remove_mem(last.pre, last.c, last.id)
       /\ last.op = "clear"
            => /\ last.c \in DOMAIN collections => DOMAIN collections[last.c] = {}
               /\ collections = clear_mem(last.pre, last.c)
\* A clear of a collection that held a document has failed to save, and the
\* document is gone from the memory.
C16_Witness ==
  /\ last.op = "clear" /\ last.res = "IoError"
  /\ last.c \in DOMAIN last.pre /\ DOMAIN last.pre[last.c] # {}
  /\ DOMAIN collections[last.c] = {}

\* C17: when insert, delete or clear returns Ok the file holds the whole
\* memory; so when the call before it failed to save, its change is in the
\* file too, unless the call that succeeded is on the same collection: a
\* document of a failed insert is in the snapshot, a document of a failed
\* delete or clear is not.
C17_SuccessPersistsWholeMemory ==
  [][(last'.op \in Mutating /\ last'.res = "Ok")
       => /\ Holds(disk', collections')
          /\ (last.op \in Mutating /\ last.res = "IoError" /\ last'.c # last.c)
               => LET snap == from_str(disk'.content).val
                  IN /\ last.op = "insert"
                          => get_document(snap, last.c, last.id) = Some(last.d)
                     /\ last.op = "delete"
                          => get_document(snap, last.c, last.id) = None
                     /\ last.op = "clear"
                          => \A id \in Ids : get_document(snap, last.c, id) = None]_vars
\* After a save has failed, a clear of a collection that does not exist has
\* returned Ok, and the file holds the memory.
C17_Witness ==
  /\ last.op = "clear" /\ last.res = "Ok"
  /\ last.c \notin DOMAIN collections
  /\ faults = 1
  /\ collections # EmptyMap
  /\ Holds(disk, collections)

\* C18: after insert(c, id, d), and after delete(c, id) that returned Ok,
\* get of every other pair (c2, id2) returns what it returned before.
C18_OnlyTheEntryChanges ==
  ((last.op = "insert" /\ last.res \in {"Ok", "IoError"})
     \/ (last.op = "delete" /\ last.res = "Ok"))
    => \A c2 \in Colls, id2 \in Ids :
         (c2 # last.c \/ id2 # last.id)
           => get_document(collections, c2, id2) = get_document(last.pre, c2, id2)
\* A delete has returned Ok in a store that holds another document in the
\* same collection.
C18_Witness ==
  /\ last.op = "delete" /\ last.res = "Ok"
  /\ \E id2 \in Ids \ {last.id} :
       /\ Present(last.pre, last.c, id2)
       /\ get_document(collections, last.c, id2) = Some(last.pre[last.c][id2])

\* C19: every failure has the kind of its cause: an open whose snapshot does
\* not decode returns DeserializationError, an open whose read fails and a
\* mutating call whose write fails return IoError, and a delete returns
\* KeyNotFound exactly for an absent collection or id.
C19_ErrorKindsMatch ==
  /\ (last.op = "open" /\ disk.exists /\ ~last.readErr
        /\ SkipWs(disk.content) # <<>> /\ from_str(disk.content).st # "ok")
       => last.res = "DeserializationError"
  /\ (last.op = "open" /\ disk.exists /\ last.readErr) => last.res = "IoError"
  /\ (last.op \in Mutating /\ last.res \notin {"Ok", "crashed"})
       => last.res = (IF last.op = "delete" /\ ~Present(last.pre, last.c, last.id)
                      THEN "KeyNotFound" ELSE "IoError")
====
